---- MODULE Spec2Model ----
(***************************************************************************)
(* State-machine model of the customer-tracking web application in         *)
(* src/app.py: the users and customers tables, the Flask session of each   *)
(* browser, and one action per route handler.                              *)
(*                                                                         *)
(* Text (form fields, stored strings) is a sequence of one-character       *)
(* strings, so that str.strip() and SQL LIKE are computed, not assumed.    *)
(* The two characters of the literal "同左" are written "tong", "zuo".     *)
(* Time is counted in clock ticks; a calendar day is TicksPerDay ticks.    *)
(***************************************************************************)
EXTENDS Naturals, Sequences, FiniteSets, TLC

VARIABLES
    backend,    \* database engine selected from DATABASE_URL
    users,      \* rows of table "users"
    userSeq,    \* next value of the users.id sequence (PostgreSQL)
    clients,    \* rows of table "customers"
    clientSeq,  \* next value of the customers.id sequence (PostgreSQL)
    sess,       \* sess[b]: the Flask session (signed cookie) of browser b
    pc,         \* pc[b]: position of browser b's request inside its handler
    req,        \* req[b]: local variables of browser b's request in flight
    now,        \* datetime.now()
    files,      \* files[name]: content of the export file written on disk
    resp        \* the response to the last request that completed

vars == <<backend, users, userSeq, clients, clientSeq, sess, pc, req, now, files, resp>>

----------------------------------------------------------------------------
(* Bounds of the model *)

MaxUserId == 3
MaxClientId == 2
MaxNow == 1
TicksPerDay == 2

Browsers == {1, 2}
UserIds == 1..MaxUserId
ClientIds == 1..MaxClientId

(* Program constants *)

FollowUpDays == 14

SameAsLeft == <<"tong", "zuo">>

AdminUsername == "admin"
AdminEmployeeId == "A000"
AdminPassword == <<"1", "2", "3", "4", "5", "6">>

CsvName == "clients_export.csv"
XlsxName == "clients_export.xlsx"

Header == <<"name", "house_address", "register_address", "first_contact", "next_follow", "notes">>

----------------------------------------------------------------------------
(* Text *)

IsSpace(c) == c = " "

RECURSIVE LStrip(_)
LStrip(t) == IF t # <<>> /\ IsSpace(Head(t)) THEN LStrip(Tail(t)) ELSE t

RECURSIVE RStrip(_)
RStrip(t) ==
    IF t # <<>> /\ IsSpace(t[Len(t)]) THEN RStrip(SubSeq(t, 1, Len(t) - 1)) ELSE t

Strip(t) == RStrip(LStrip(t))

\* SQL LIKE: "%" matches any run of characters, "_" any one character.
RECURSIVE Like(_, _)
Like(t, p) ==
    IF p = <<>> THEN t = <<>>
    ELSE IF Head(p) = "%" THEN Like(t, Tail(p)) \/ (t # <<>> /\ Like(Tail(t), p))
    ELSE /\ t # <<>>
         /\ (Head(p) = "_" \/ Head(p) = Head(t))
         /\ Like(Tail(t), Tail(p))

Keyword(search) == <<"%">> \o search \o <<"%">>

----------------------------------------------------------------------------
(* Time *)

DateOf(t) == t \div TicksPerDay

Midnight(day) == day * TicksPerDay

Digits == {"0", "1"}

DigitValue(c) == IF c = "1" THEN 1 ELSE 0

\* datetime.strptime(s, "%Y/%m/%d"): the pattern is abridged to "/" and one
\* digit naming the day; anything else raises ValueError.
Strptime(s) ==
    IF Len(s) = 2 /\ s[1] = "/" /\ s[2] \in Digits
    THEN [ok |-> TRUE, value |-> Midnight(DigitValue(s[2]))]
    ELSE [ok |-> FALSE, value |-> 0]

----------------------------------------------------------------------------
(* Password hashing (werkzeug.security) *)

Salts == {"s1"}

generate_password_hash(salt, password) ==
    [salt |-> salt, digest |-> <<salt>> \o password]

check_password_hash(pwhash, password) ==
    pwhash.digest = <<pwhash.salt>> \o password

check_password(user, password) == check_password_hash(user.password_hash, password)

----------------------------------------------------------------------------
(* Tables *)

UsersNamed(username) == {u \in users : u.username = username}

UsersWithId(id) == {u \in users : u.id = id}

ClientsWithId(id) == {c \in clients : c.id = id}

MaxOf(S) == IF S = {} THEN 0 ELSE CHOOSE m \in S : \A x \in S : x <= m

\* The id an INSERT gets: the sequence's next value on PostgreSQL, the
\* largest rowid plus one on SQLite.
NewUserId ==
    IF backend = "postgresql" THEN userSeq ELSE MaxOf({u.id : u \in users}) + 1

NewClientId ==
    IF backend = "postgresql" THEN clientSeq ELSE MaxOf({c.id : c \in clients}) + 1

\* users.username is declared unique=True: the commit of a row whose
\* username another row holds raises IntegrityError.
UsernameUnique(table) ==
    \A u1, u2 \in table : u1.username = u2.username => u1 = u2

----------------------------------------------------------------------------
(* Sessions, requests, responses *)

EmptySession ==
    [logged |-> FALSE, user_id |-> 0, username |-> "", employee_id |-> "", role |-> ""]

SessionOf(user) ==
    [logged |-> TRUE, user_id |-> user.id, username |-> user.username,
     employee_id |-> user.employee_id, role |-> user.role]

NoReq == [kind |-> "none"]

\* arg: the <int:id> of the URL, or the id of the row inserted; rows: the
\* records handed to the page template, or queried for the export; count:
\* the page's due-today badge; file: the content of the file sent.
Response(b, route, method, arg, outcome, rows, count, file) ==
    [b |-> b, route |-> route, method |-> method, arg |-> arg,
     outcome |-> outcome, rows |-> rows, count |-> count, file |-> file,
     q |-> <<>>, today |-> FALSE]

Reply(b, route, method, arg, outcome) ==
    resp' = Response(b, route, method, arg, outcome, {}, 0, <<>>)

NoResponse == Response(0, "none", "GET", 0, "none", {}, 0, <<>>)

\* A handler runs for browser b at position `at` of its code. The response
\* of the request served before has been received: handlers never read it.
At(b, at) == pc[b] = at /\ resp = NoResponse

Idle(b) == At(b, "idle")

\* The gate as it would be if it looked for no key of the session.
login_required_AnySession(b) == TRUE

\* login_required: "user_id" in session
login_required(b) == sess[b].logged

Methods == {"GET", "POST"}

----------------------------------------------------------------------------
Init ==
    /\ backend \in {"postgresql", "sqlite"}
    /\ users = {}
    /\ userSeq = 1
    /\ clients = {}
    /\ clientSeq = 1
    /\ sess = [b \in Browsers |-> EmptySession]
    /\ pc = [b \in Browsers |-> "idle"]
    /\ req = [b \in Browsers |-> NoReq]
    /\ now = 0
    /\ files = [f \in {CsvName, XlsxName} |-> <<>>]
    /\ resp = NoResponse

----------------------------------------------------------------------------
(* /login, /logout, / *)

Login(b, method, username, password) ==
    /\ Idle(b)
    /\ LET found == UsersNamed(username)
           user == CHOOSE u \in found : TRUE
       IN IF method = "POST" /\ found # {} /\ check_password(user, password)
          THEN /\ sess' = [sess EXCEPT ![b] = SessionOf(user)]
               /\ Reply(b, "login", method, 0, "redirect_list")
          ELSE /\ UNCHANGED sess
               /\ Reply(b, "login", method, 0,
                        IF method = "POST" THEN "login_error" ELSE "page")
    /\ UNCHANGED <<backend, users, userSeq, clients, clientSeq, pc, req, now, files>>

Logout(b) ==
    /\ Idle(b)
    /\ sess' = [sess EXCEPT ![b] = EmptySession]
    /\ Reply(b, "logout", "GET", 0, "redirect_login")
    /\ UNCHANGED <<backend, users, userSeq, clients, clientSeq, pc, req, now, files>>

Home(b) ==
    /\ Idle(b)
    /\ Reply(b, "home", "GET", 0,
             IF sess[b].logged THEN "redirect_list" ELSE "redirect_login")
    /\ UNCHANGED <<backend, users, userSeq, clients, clientSeq, sess, pc, req, now, files>>

----------------------------------------------------------------------------
(* /add, /edit/<id>, /delete/<id> *)

\* The rule as it would be if the addresses were compared without strip().
NormalizeRegister_NoStrip(house_address, register_address) ==
    IF house_address = register_address THEN SameAsLeft ELSE register_address

\* Lines 141-142 and 181-182: an equal pair of addresses, compared after
\* strip(), is stored with the registered address replaced by "同左".
NormalizeRegister(house_address, register_address) ==
    IF Strip(house_address) = Strip(register_address)
    THEN SameAsLeft
    ELSE register_address

\* The comparison as it would be if it compared the row's own id, not its user_id.
OwnershipDenied_WrongField(session, row) ==
    session.role # "admin" /\ row.id # session.user_id

\* Lines 168 and 197: session["role"] != "admin" and row.user_id != session["user_id"]
OwnershipDenied(session, row) ==
    session.role # "admin" /\ row.user_id # session.user_id

AddClient(b, method, form) ==
    /\ Idle(b)
    /\ LET chosen_next == Strip(form.next_follow)
           parsed == Strptime(chosen_next)
           next_time == IF chosen_next = <<>>
                        THEN now + FollowUpDays * TicksPerDay
                        ELSE parsed.value
           c == [id |-> NewClientId,
                 name |-> form.name,
                 house_address |-> form.house_address,
                 register_address |->
                     NormalizeRegister(form.house_address, form.register_address),
                 first_contact |-> now,
                 next_follow |-> next_time,
                 notes |-> form.notes,
                 user_id |-> sess[b].user_id]
       IN IF ~login_required(b)
          THEN /\ Reply(b, "add", method, 0, "redirect_login")
               /\ UNCHANGED <<clients, clientSeq>>
          ELSE IF method = "GET"
          THEN /\ Reply(b, "add", method, 0, "page")
               /\ UNCHANGED <<clients, clientSeq>>
          ELSE IF chosen_next # <<>> /\ ~parsed.ok
          THEN /\ Reply(b, "add", method, 0, "error500")
               /\ UNCHANGED <<clients, clientSeq>>
          ELSE /\ NewClientId <= MaxClientId
               /\ clients' = clients \cup {c}
               /\ clientSeq' = IF backend = "postgresql" THEN clientSeq + 1 ELSE clientSeq
               /\ Reply(b, "add", method, c.id, "redirect_list")
    /\ UNCHANGED <<backend, users, userSeq, sess, pc, req, now, files>>

EditClient(b, method, id, form) ==
    /\ Idle(b)
    /\ LET found == ClientsWithId(id)
           client == CHOOSE c \in found : TRUE
           chosen_next == Strip(form.next_follow)
           parsed == Strptime(chosen_next)
           edited == [client EXCEPT
                        !.name = form.name,
                        !.house_address = form.house_address,
                        !.register_address =
                            NormalizeRegister(form.house_address, form.register_address),
                        !.notes = form.notes,
                        !.next_follow = IF chosen_next # <<>> THEN parsed.value ELSE @]
       IN IF ~login_required(b)
          THEN /\ Reply(b, "edit", method, id, "redirect_login")
               /\ UNCHANGED clients
          ELSE IF found = {}
          THEN \* Client.query.get(id) is None
               /\ Reply(b, "edit", method, id,
                        IF sess[b].role = "admin" /\ method = "GET"
                        THEN "page" ELSE "error500")
               /\ UNCHANGED clients
          ELSE IF OwnershipDenied(sess[b], client)
          THEN /\ Reply(b, "edit", method, id, "forbidden")
               /\ UNCHANGED clients
          ELSE IF method = "GET"
          THEN /\ resp' = Response(b, "edit", method, id, "page", {client}, 0, <<>>)
               /\ UNCHANGED clients
          ELSE IF chosen_next # <<>> /\ ~parsed.ok
          THEN /\ Reply(b, "edit", method, id, "error500")
               /\ UNCHANGED clients
          ELSE /\ clients' = (clients \ {client}) \cup {edited}
               /\ Reply(b, "edit", method, id, "redirect_list")
    /\ UNCHANGED <<backend, users, userSeq, clientSeq, sess, pc, req, now, files>>

DeleteClient(b, id) ==
    /\ Idle(b)
    /\ LET found == ClientsWithId(id)
           c == CHOOSE x \in found : TRUE
       IN IF ~login_required(b)
          THEN /\ Reply(b, "delete", "GET", id, "redirect_login")
               /\ UNCHANGED clients
          ELSE IF found = {}
          THEN /\ Reply(b, "delete", "GET", id, "error500")
               /\ UNCHANGED clients
          ELSE IF OwnershipDenied(sess[b], c)
          THEN /\ Reply(b, "delete", "GET", id, "forbidden")
               /\ UNCHANGED clients
          ELSE /\ clients' = clients \ {c}
               /\ Reply(b, "delete", "GET", id, "redirect_list")
    /\ UNCHANGED <<backend, users, userSeq, clientSeq, sess, pc, req, now, files>>

----------------------------------------------------------------------------
(* /list *)

\* The query as it would be without the filter_by(user_id=...).
BaseQuery_Unscoped(session) == clients

\* Lines 217-220, 237, 256 and 290: every row for role "admin", else the
\* rows whose user_id is the session's.
BaseQuery(session) ==
    IF session.role = "admin"
    THEN clients
    ELSE {c \in clients : c.user_id = session.user_id}

Matches(c, keyword) ==
    \/ Like(c.name, keyword)
    \/ Like(c.house_address, keyword)
    \/ Like(c.register_address, keyword)
    \/ Like(c.notes, keyword)

ListResult(session, q, today_flag) ==
    LET search == Strip(q)
        queried == IF search # <<>>
                   THEN {c \in BaseQuery(session) : Matches(c, Keyword(search))}
                   ELSE BaseQuery(session)
    IN IF today_flag
       THEN {c \in queried : DateOf(c.next_follow) = DateOf(now)}
       ELSE queried

TodayCount(session) ==
    Cardinality({c \in BaseQuery(session) : DateOf(c.next_follow) = DateOf(now)})

\* The response keeps the query string it answers: q and today.
ListClients(b, q, today_flag) ==
    /\ Idle(b)
    /\ IF ~login_required(b)
       THEN Reply(b, "list", "GET", 0, "redirect_login")
       ELSE resp' = [Response(b, "list", "GET", 0, "page",
                              ListResult(sess[b], q, today_flag),
                              TodayCount(sess[b]), <<>>)
                     EXCEPT !.q = q, !.today = today_flag]
    /\ UNCHANGED <<backend, users, userSeq, clients, clientSeq, sess, pc, req, now, files>>

----------------------------------------------------------------------------
(* /export_csv, /export_excel *)

\* Query.all() hands the rows over in storage order, taken as id order.
RECURSIVE InIdOrder(_)
InIdOrder(S) ==
    IF S = {} THEN <<>>
    ELSE LET first == CHOOSE c \in S : \A d \in S : c.id <= d.id
         IN <<first>> \o InIdOrder(S \ {first})

\* strftime("%Y-%m-%d %H:%M") keeps the tick, strftime("%Y-%m-%d") the day.
ExportRow(c) ==
    <<c.name, c.house_address, c.register_address,
      c.first_contact, DateOf(c.next_follow), c.notes>>

ExportContent(data) == <<Header>> \o [i \in 1..Len(data) |-> ExportRow(data[i])]

\* export_csv up to open(filename, "w"), which truncates the file.
ExportCsv(b) ==
    /\ Idle(b)
    /\ IF ~login_required(b)
       THEN /\ Reply(b, "export_csv", "GET", 0, "redirect_login")
            /\ UNCHANGED <<pc, req, files>>
       ELSE /\ pc' = [pc EXCEPT ![b] = "csv_write"]
            /\ req' = [req EXCEPT ![b] =
                          [kind |-> "export", data |-> InIdOrder(BaseQuery(sess[b]))]]
            /\ files' = [files EXCEPT ![CsvName] = <<>>]
            /\ UNCHANGED resp
    /\ UNCHANGED <<backend, users, userSeq, clients, clientSeq, sess, now>>

\* The header and the rows are written and the file is closed.
ExportCsvWrite(b) ==
    /\ At(b, "csv_write")
    /\ files' = [files EXCEPT ![CsvName] = ExportContent(req[b].data)]
    /\ pc' = [pc EXCEPT ![b] = "csv_send"]
    /\ UNCHANGED <<backend, users, userSeq, clients, clientSeq, sess, req, now, resp>>

\* send_file(filename): the response carries what the file holds by then.
ExportCsvSend(b) ==
    /\ At(b, "csv_send")
    /\ resp' = Response(b, "export_csv", "GET", 0, "file",
                        {req[b].data[i] : i \in 1..Len(req[b].data)}, 0, files[CsvName])
    /\ pc' = [pc EXCEPT ![b] = "idle"]
    /\ req' = [req EXCEPT ![b] = NoReq]
    /\ UNCHANGED <<backend, users, userSeq, clients, clientSeq, sess, now, files>>

\* export_excel up to wb.save(filename): the workbook is built in memory
\* and written in one piece.
ExportExcel(b) ==
    /\ Idle(b)
    /\ IF ~login_required(b)
       THEN /\ Reply(b, "export_excel", "GET", 0, "redirect_login")
            /\ UNCHANGED <<pc, req, files>>
       ELSE /\ pc' = [pc EXCEPT ![b] = "xlsx_send"]
            /\ req' = [req EXCEPT ![b] =
                          [kind |-> "export", data |-> InIdOrder(BaseQuery(sess[b]))]]
            /\ files' = [files EXCEPT ![XlsxName] =
                            ExportContent(InIdOrder(BaseQuery(sess[b])))]
            /\ UNCHANGED resp
    /\ UNCHANGED <<backend, users, userSeq, clients, clientSeq, sess, now>>

ExportExcelSend(b) ==
    /\ At(b, "xlsx_send")
    /\ resp' = Response(b, "export_excel", "GET", 0, "file",
                        {req[b].data[i] : i \in 1..Len(req[b].data)}, 0, files[XlsxName])
    /\ pc' = [pc EXCEPT ![b] = "idle"]
    /\ req' = [req EXCEPT ![b] = NoReq]
    /\ UNCHANGED <<backend, users, userSeq, clients, clientSeq, sess, now, files>>

----------------------------------------------------------------------------
(* /create_admin *)

\* The commit as it would be if username were not declared unique.
CommitUserInsert_NoConstraint(row) ==
    /\ users' = users \cup {row}
    /\ userSeq' = IF backend = "postgresql" THEN userSeq + 1 ELSE userSeq

\* A commit of the users table: refused (IntegrityError, nothing written)
\* when it would break the unique constraint on username. PostgreSQL draws
\* the id from the sequence whether or not the INSERT succeeds.
CommitUserInsert(row) ==
    /\ users' = IF UsernameUnique(users \cup {row}) THEN users \cup {row} ELSE users
    /\ userSeq' = IF backend = "postgresql" THEN userSeq + 1 ELSE userSeq

\* create_admin as it would be without the lookup of an existing "admin".
CreateAdmin_NoLookup(b) ==
    /\ Idle(b)
    /\ pc' = [pc EXCEPT ![b] = "create_admin_commit"]
    /\ req' = [req EXCEPT ![b] = [kind |-> "create_admin"]]
    /\ UNCHANGED <<backend, users, userSeq, clients, clientSeq, sess, now, files, resp>>

\* create_admin up to the lookup of the username "admin".
CreateAdmin(b) ==
    /\ Idle(b)
    /\ IF UsersNamed(AdminUsername) # {}
       THEN /\ Reply(b, "create_admin", "GET", 0, "admin_exists")
            /\ UNCHANGED <<pc, req>>
       ELSE /\ pc' = [pc EXCEPT ![b] = "create_admin_commit"]
            /\ req' = [req EXCEPT ![b] = [kind |-> "create_admin"]]
            /\ UNCHANGED resp
    /\ UNCHANGED <<backend, users, userSeq, clients, clientSeq, sess, now, files>>

\* db.session.add(admin); db.session.commit()
CreateAdminCommit(b) ==
    /\ At(b, "create_admin_commit")
    /\ NewUserId <= MaxUserId
    /\ \E salt \in Salts :
        LET admin == [id |-> NewUserId,
                      username |-> AdminUsername,
                      password_hash |-> generate_password_hash(salt, AdminPassword),
                      employee_id |-> AdminEmployeeId,
                      role |-> "admin"]
        IN /\ CommitUserInsert(admin)
           /\ Reply(b, "create_admin", "GET", admin.id,
                    IF UsernameUnique(users \cup {admin})
                    THEN "admin_created" ELSE "error500")
    /\ pc' = [pc EXCEPT ![b] = "idle"]
    /\ req' = [req EXCEPT ![b] = NoReq]
    /\ UNCHANGED <<backend, clients, clientSeq, sess, now, files>>

----------------------------------------------------------------------------
(* /users, /users/add, /users/edit/<id>, /users/delete/<id> *)

\* The comparison as it would be if any logged-in session passed it.
AdminOnlyDenied_LoginOnly(session) == ~session.logged

\* Lines 331, 340, 369 and 391: session["role"] != "admin"
AdminOnlyDenied(session) == session.role # "admin"

UserList(b) ==
    /\ Idle(b)
    /\ IF ~login_required(b)
       THEN Reply(b, "users", "GET", 0, "redirect_login")
       ELSE IF AdminOnlyDenied(sess[b])
       THEN Reply(b, "users", "GET", 0, "forbidden")
       ELSE resp' = Response(b, "users", "GET", 0, "page", users, 0, <<>>)
    /\ UNCHANGED <<backend, users, userSeq, clients, clientSeq, sess, pc, req, now, files>>

\* add_user up to the lookup of the submitted username.
AddUser(b, method, form) ==
    /\ Idle(b)
    /\ IF ~login_required(b)
       THEN /\ Reply(b, "users_add", method, 0, "redirect_login")
            /\ UNCHANGED <<pc, req>>
       ELSE IF AdminOnlyDenied(sess[b])
       THEN /\ Reply(b, "users_add", method, 0, "forbidden")
            /\ UNCHANGED <<pc, req>>
       ELSE IF method = "GET"
       THEN /\ Reply(b, "users_add", method, 0, "page")
            /\ UNCHANGED <<pc, req>>
       ELSE IF UsersNamed(form.username) # {}
       THEN /\ Reply(b, "users_add", method, 0, "conflict")
            /\ UNCHANGED <<pc, req>>
       ELSE /\ pc' = [pc EXCEPT ![b] = "add_user_commit"]
            /\ req' = [req EXCEPT ![b] = [kind |-> "add_user", form |-> form]]
            /\ UNCHANGED resp
    /\ UNCHANGED <<backend, users, userSeq, clients, clientSeq, sess, now, files>>

\* user.set_password(password); db.session.add(user); db.session.commit()
AddUserCommit(b) ==
    /\ At(b, "add_user_commit")
    /\ NewUserId <= MaxUserId
    /\ \E salt \in Salts :
        LET form == req[b].form
            user == [id |-> NewUserId,
                     username |-> form.username,
                     password_hash |-> generate_password_hash(salt, form.password),
                     employee_id |-> form.employee_id,
                     role |-> form.role]
        IN /\ CommitUserInsert(user)
           /\ Reply(b, "users_add", "POST", user.id,
                    IF UsernameUnique(users \cup {user})
                    THEN "redirect_users" ELSE "error500")
    /\ pc' = [pc EXCEPT ![b] = "idle"]
    /\ req' = [req EXCEPT ![b] = NoReq]
    /\ UNCHANGED <<backend, clients, clientSeq, sess, now, files>>

EditUser(b, method, id, form) ==
    /\ Idle(b)
    /\ LET found == UsersWithId(id)
           user == CHOOSE u \in found : TRUE
           new_pass == Strip(form.password)
       IN IF ~login_required(b)
          THEN /\ Reply(b, "users_edit", method, id, "redirect_login")
               /\ UNCHANGED users
          ELSE IF AdminOnlyDenied(sess[b])
          THEN /\ Reply(b, "users_edit", method, id, "forbidden")
               /\ UNCHANGED users
          ELSE IF method = "GET"
          THEN /\ resp' = Response(b, "users_edit", method, id, "page", found, 0, <<>>)
               /\ UNCHANGED users
          ELSE IF found = {}
          THEN \* User.query.get(id) is None
               /\ Reply(b, "users_edit", method, id, "error500")
               /\ UNCHANGED users
          ELSE \E salt \in Salts :
                LET edited == [user EXCEPT
                                 !.username = form.username,
                                 !.employee_id = form.employee_id,
                                 !.role = form.role,
                                 !.password_hash =
                                     IF new_pass # <<>>
                                     THEN generate_password_hash(salt, new_pass)
                                     ELSE @]
                    table == (users \ {user}) \cup {edited}
                IN IF UsernameUnique(table)
                   THEN /\ users' = table
                        /\ Reply(b, "users_edit", method, id, "redirect_users")
                   ELSE /\ Reply(b, "users_edit", method, id, "error500")
                        /\ UNCHANGED users
    /\ UNCHANGED <<backend, userSeq, clients, clientSeq, sess, pc, req, now, files>>

\* The comparison as it would be if it were applied to non-admin sessions only.
IsSelf_NonAdminOnly(session, id) == id = session.user_id /\ session.role # "admin"

\* Line 394: id == session["user_id"]
IsSelf(session, id) == id = session.user_id

DeleteUser(b, id) ==
    /\ Idle(b)
    /\ LET found == UsersWithId(id)
       IN IF ~login_required(b)
          THEN /\ Reply(b, "users_delete", "GET", id, "redirect_login")
               /\ UNCHANGED users
          ELSE IF AdminOnlyDenied(sess[b])
          THEN /\ Reply(b, "users_delete", "GET", id, "forbidden")
               /\ UNCHANGED users
          ELSE IF IsSelf(sess[b], id)
          THEN /\ Reply(b, "users_delete", "GET", id, "forbidden")
               /\ UNCHANGED users
          ELSE IF found = {}
          THEN \* db.session.delete(None)
               /\ Reply(b, "users_delete", "GET", id, "error500")
               /\ UNCHANGED users
          ELSE /\ users' = users \ found
               /\ Reply(b, "users_delete", "GET", id, "redirect_users")
    /\ UNCHANGED <<backend, userSeq, clients, clientSeq, sess, pc, req, now, files>>

----------------------------------------------------------------------------
(* The response reaches the browser *)

Receive ==
    /\ resp # NoResponse
    /\ resp' = NoResponse
    /\ UNCHANGED <<backend, users, userSeq, clients, clientSeq, sess, pc, req, now, files>>

----------------------------------------------------------------------------
(* The clock *)

Tick ==
    /\ now < MaxNow
    /\ now' = now + 1
    /\ UNCHANGED <<backend, users, userSeq, clients, clientSeq, sess, pc, req, files, resp>>

----------------------------------------------------------------------------
(* Inputs *)

Usernames == {"admin", "bob"}

Passwords == {AdminPassword, <<"p">>}

UserForm(username, password, employee_id, role) ==
    [username |-> username, password |-> password,
     employee_id |-> employee_id, role |-> role]

BobForm == UserForm("bob", <<"p">>, "E1", "user")

AddUserForms == {BobForm, UserForm("bob", AdminPassword, "E2", "admin")}

EditUserForms == {UserForm("bob", <<" ", "p">>, "E1", "user")}

ClientForm(name, house_address, register_address, notes, next_follow) ==
    [name |-> name, house_address |-> house_address,
     register_address |-> register_address, notes |-> notes,
     next_follow |-> next_follow]

SameForm == ClientForm(<<"w">>, <<"a">>, <<" ", "a">>, <<>>, <<>>)

OtherForm == ClientForm(<<"w">>, <<"a", " ">>, <<"b">>, <<>>, <<" ", "/", "0">>)

BadDateForm == ClientForm(<<"w">>, <<"a">>, <<"b">>, <<>>, <<"x">>)

ClientForms == {SameForm, OtherForm, BadDateForm}

Searches == {<<>>, <<" ">>, <<"b">>}

----------------------------------------------------------------------------
(* Specifications *)

SessionRequest(b, methods) ==
    \/ \E m \in methods, u \in Usernames, p \in Passwords : Login(b, m, u, p)
    \/ Logout(b)

BootstrapRequest(b) ==
    \/ CreateAdmin(b)
    \/ CreateAdminCommit(b)

AddUserRequest(b, methods, forms) ==
    \/ \E m \in methods, f \in forms : AddUser(b, m, f)
    \/ AddUserCommit(b)

UserRequest(b, methods) ==
    \/ AddUserRequest(b, methods, AddUserForms)
    \/ \E m \in methods, id \in UserIds, f \in EditUserForms : EditUser(b, m, id, f)
    \/ \E id \in UserIds : DeleteUser(b, id)

ClientRequest(b, methods, forms) ==
    \/ \E m \in methods, f \in forms : AddClient(b, m, f)
    \/ \E m \in methods, id \in ClientIds, f \in forms : EditClient(b, m, id, f)
    \/ \E id \in ClientIds : DeleteClient(b, id)

ListRequest(b) ==
    \E q \in Searches, t \in BOOLEAN : ListClients(b, q, t)

ExportRequest(b) ==
    \/ ExportCsv(b)
    \/ ExportCsvWrite(b)
    \/ ExportCsvSend(b)
    \/ ExportExcel(b)
    \/ ExportExcelSend(b)

\* The database once /create_admin and one /users/add (BobForm) have been
\* served and everybody has logged out: a state SpecUsers reaches from Init
\* on either engine.
InitStaffed ==
    /\ backend \in {"postgresql", "sqlite"}
    /\ users = {[id |-> 1, username |-> AdminUsername,
                 password_hash |-> generate_password_hash("s1", AdminPassword),
                 employee_id |-> AdminEmployeeId, role |-> "admin"],
                [id |-> 2, username |-> BobForm.username,
                 password_hash |-> generate_password_hash("s1", BobForm.password),
                 employee_id |-> BobForm.employee_id, role |-> BobForm.role]}
    /\ userSeq = IF backend = "postgresql" THEN 3 ELSE 1
    /\ clients = {}
    /\ clientSeq = 1
    /\ sess = [b \in Browsers |-> EmptySession]
    /\ pc = [b \in Browsers |-> "idle"]
    /\ req = [b \in Browsers |-> NoReq]
    /\ now = 0
    /\ files = [f \in {CsvName, XlsxName} |-> <<>>]
    /\ resp = NoResponse

\* Every route behind login_required, one browser walking through them.
Next ==
    \/ \E b \in {1} :
        \/ SessionRequest(b, Methods)
        \/ Home(b)
        \/ UserList(b)
        \/ AddUserRequest(b, Methods, {BobForm})
        \/ \E m \in Methods, id \in UserIds, f \in EditUserForms : EditUser(b, m, id, f)
        \/ \E id \in UserIds : DeleteUser(b, id)
        \/ ClientRequest(b, Methods, {SameForm})
        \/ ListClients(b, <<>>, FALSE)
        \/ ExportRequest(b)
    \/ Receive

Spec == InitStaffed /\ [][Next]_vars

\* Account management: login, the bootstrap and the /users routes.
NextUsers ==
    \/ \E b \in Browsers :
        \/ SessionRequest(b, {"POST"})
        \/ BootstrapRequest(b)
        \/ UserRequest(b, {"POST"})
    \/ Receive

SpecUsers == Init /\ [][NextUsers]_vars

\* The client book of an admin and one employee: /add, /edit, /delete, /list.
NextClients ==
    \/ \E b \in Browsers :
        \/ SessionRequest(b, {"POST"})
        \/ ClientRequest(b, {"POST"}, ClientForms)
        \/ ListRequest(b)
    \/ Receive

SpecClients == InitStaffed /\ [][NextClients]_vars

\* Exports racing with each other while clients are added and the clock runs.
NextExport ==
    \/ \E b \in Browsers :
        \/ SessionRequest(b, {"POST"})
        \/ AddClient(b, "POST", OtherForm)
        \/ ExportRequest(b)
    \/ Receive
    \/ Tick

SpecExport == InitStaffed /\ [][NextExport]_vars

----------------------------------------------------------------------------
(* Properties *)

\* A step that completes a request: the response appears.
Completes == resp = NoResponse /\ resp' # NoResponse

ProtectedRoutes ==
    {"list", "add", "edit", "delete", "export_csv", "export_excel",
     "users", "users_add", "users_edit", "users_delete"}

\* C1: the page /list renders for a session whose role is not admin holds
\* no client of another owner, whatever q and today are; for a session
\* whose role is admin, with no q and no today, it holds every client.
C1_ListScope ==
    (resp.route = "list" /\ resp.outcome = "page") =>
        LET session == sess[resp.b]
        IN /\ session.role # "admin" =>
                \A c \in resp.rows : c.user_id = session.user_id
           /\ (session.role = "admin" /\ resp.q = <<>> /\ ~resp.today) =>
                resp.rows = clients

\* C1: an employee searched the list while the book held a client of
\* someone else, and got a client of their own.
C1_Witness ==
    /\ resp.route = "list" /\ resp.outcome = "page"
    /\ sess[resp.b].role = "user"
    /\ resp.q # <<>>
    /\ resp.rows # {}
    /\ \E c \in clients : c.user_id # sess[resp.b].user_id

WellFormed(form) ==
    Strip(form.next_follow) = <<>> \/ Strptime(Strip(form.next_follow)).ok

\* C2: POST /edit/<id> and /delete/<id> of an existing client from a session
\* that is neither admin nor the owner are answered with the denial and
\* leave the customers table as it was; from the owner or an admin the
\* edit (of a well-formed form) is stored and the delete removes the row.
C2_OwnerOrAdminOnly ==
    [][\A b \in Browsers, id \in ClientIds :
        LET found == ClientsWithId(id)
            c == CHOOSE x \in found : TRUE
            denied == sess[b].role # "admin" /\ c.user_id # sess[b].user_id
        IN (sess[b].logged /\ found # {}) =>
            /\ \A f \in ClientForms :
                EditClient(b, "POST", id, f) =>
                    IF denied
                    THEN resp'.outcome = "forbidden" /\ clients' = clients
                    ELSE /\ resp'.outcome # "forbidden"
                         /\ WellFormed(f) =>
                             /\ resp'.outcome = "redirect_list"
                             /\ \E e \in clients' :
                                 /\ e.id = id
                                 /\ e.name = f.name
                                 /\ e.house_address = f.house_address
                                 /\ e.notes = f.notes
                                 /\ e.user_id = c.user_id
                                 /\ clients' \ {e} = clients \ {c}
            /\ DeleteClient(b, id) =>
                    IF denied
                    THEN resp'.outcome = "forbidden" /\ clients' = clients
                    ELSE /\ resp'.outcome = "redirect_list"
                         /\ clients' = clients \ {c}
    ]_vars

\* C2: an employee's POST /edit/<id> of a client they do not own was denied.
C2_Witness ==
    /\ resp.route = "edit" /\ resp.method = "POST" /\ resp.outcome = "forbidden"
    /\ sess[resp.b].role # "admin"
    /\ \E c \in clients : c.id = resp.arg /\ c.user_id # sess[resp.b].user_id

\* C3: a request to a protected route from a browser whose session is empty
\* is redirected to /login and writes neither table; a session changes only
\* by a successful login or a logout of its own browser; every logout leaves
\* the session empty.
C3_LoginGate ==
    [][/\ (Completes /\ resp'.route \in ProtectedRoutes /\ ~sess[resp'.b].logged) =>
            /\ resp'.outcome = "redirect_login"
            /\ users' = users
            /\ clients' = clients
       /\ \A b \in Browsers :
            sess'[b] # sess[b] =>
                /\ Completes
                /\ resp'.b = b
                /\ \/ /\ resp'.route = "login" /\ resp'.method = "POST"
                      /\ resp'.outcome = "redirect_list"
                      /\ \E u \in users : sess'[b] = SessionOf(u)
                   \/ /\ resp'.route = "logout"
                      /\ sess'[b] = EmptySession
       /\ (Completes /\ resp'.route = "logout") =>
            /\ sess'[resp'.b] = EmptySession
            /\ resp'.outcome = "redirect_login"
            /\ users' = users
            /\ clients' = clients
    ]_vars

\* C3: with clients in the book, /delete/<id> of one of them from a browser
\* with no session was redirected to /login.
C3_Witness ==
    /\ resp.route = "delete" /\ resp.outcome = "redirect_login"
    /\ ~sess[resp.b].logged
    /\ \E c \in clients : c.id = resp.arg

\* C4 (second half): the role and employee id a session carries are those
\* stored for its user, in every state after the login.
C4_SessionMatchesStore ==
    \A b \in Browsers :
        sess[b].logged =>
            \E u \in users :
                /\ u.id = sess[b].user_id
                /\ u.role = sess[b].role
                /\ u.employee_id = sess[b].employee_id

\* C4 (first half): POST /login succeeds exactly when a user of that
\* username exists and the password matches the stored hash.
C4_LoginIff ==
    [][\A b \in Browsers, u \in Usernames, p \in Passwords :
        Login(b, "POST", u, p) =>
            ((resp'.outcome = "redirect_list") <=>
                \E x \in users :
                    /\ x.username = u
                    /\ x.password_hash.digest = <<x.password_hash.salt>> \o p)
    ]_vars

\* C5: /users/add, /users/edit/<id> and /users/delete/<id> from a session
\* whose role is not admin are answered with the denial and leave the users
\* table as it was.
C5_AdminOnly ==
    [][(/\ Completes
        /\ resp'.route \in {"users_add", "users_edit", "users_delete"}
        /\ sess[resp'.b].logged
        /\ sess[resp'.b].role # "admin") =>
            /\ resp'.outcome = "forbidden"
            /\ users' = users
    ]_vars

\* C5: an employee's /users/delete/<id> of another, existing user was denied.
C5_Witness ==
    /\ resp.route = "users_delete" /\ resp.outcome = "forbidden"
    /\ sess[resp.b].logged /\ sess[resp.b].role # "admin"
    /\ \E u \in users : u.id = resp.arg /\ u.id # sess[resp.b].user_id

\* C6: every stored client whose house and registered addresses are equal
\* after strip() has "同左" as its registered address.
C6_SameAddressSentinel ==
    \A c \in clients :
        Strip(c.house_address) = Strip(c.register_address) =>
            c.register_address = SameAsLeft

\* C6: an edit stored a client whose two addresses differed only in
\* surrounding blanks.
C6_Witness ==
    /\ resp.route = "edit" /\ resp.outcome = "redirect_list"
    /\ \E c \in clients :
        /\ c.id = resp.arg
        /\ c.house_address = SameForm.house_address
        /\ c.register_address = SameAsLeft

\* C7: /users/delete/<id> with the id of the session's own user is denied
\* whatever the session's role, and leaves the users table as it was.
C7_NoSelfDelete ==
    [][(/\ Completes
        /\ resp'.route = "users_delete"
        /\ sess[resp'.b].logged
        /\ resp'.arg = sess[resp'.b].user_id) =>
            /\ resp'.outcome = "forbidden"
            /\ users' = users
    ]_vars

\* C7: an admin asked to delete their own, existing account and was denied.
C7_Witness ==
    /\ resp.route = "users_delete" /\ resp.outcome = "forbidden"
    /\ sess[resp.b].role = "admin"
    /\ resp.arg = sess[resp.b].user_id
    /\ \E u \in users : u.id = resp.arg /\ u.role = "admin"

\* C8: a POST /users/add either leaves the users table as it was, or is
\* accepted and adds one row whose username no row held; it is never
\* accepted for a username a row holds, at the lookup or at the commit.
C8_DuplicateRejected ==
    [][/\ (Completes /\ resp'.route = "users_add") =>
            \/ /\ resp'.outcome # "redirect_users"
               /\ users' = users
            \/ /\ resp'.outcome = "redirect_users"
               /\ \E u \in users' :
                    /\ u \notin users
                    /\ users' = users \cup {u}
                    /\ UsersNamed(u.username) = {}
       /\ \A b \in Browsers, f \in AddUserForms :
            (AddUser(b, "POST", f) /\ sess[b].role = "admin"
                /\ UsersNamed(f.username) # {}) =>
                    resp'.outcome = "conflict" /\ users' = users
       /\ \A b \in Browsers :
            (AddUserCommit(b) /\ UsersNamed(req[b].form.username) # {}) =>
                    resp'.outcome = "error500" /\ users' = users
    ]_vars

\* C8: of two POST /users/add for one username that both passed the lookup,
\* the second was refused at the commit.
C8_Witness ==
    /\ resp.route = "users_add" /\ resp.outcome = "error500"
    /\ \E u \in users : u.username = "bob" /\ u.employee_id = "E2"
    /\ \A b \in Browsers : sess[b].role = "admin"

\* C9: /create_admin goes on to create the account only when no user is
\* named "admin"; asked while one exists it answers "already exists",
\* and a commit that meets one writes nothing; the account created is
\* "admin" with role admin; at most one user is ever named "admin".
C9_BootstrapOnce ==
    [][/\ Cardinality({u \in users' : u.username = AdminUsername}) <= 1
       /\ \A b \in Browsers :
            (pc[b] = "idle" /\ pc'[b] = "create_admin_commit") =>
                UsersNamed(AdminUsername) = {}
       /\ (Completes /\ resp'.route = "create_admin") =>
            IF UsersNamed(AdminUsername) # {}
            THEN /\ users' = users
                 /\ resp'.outcome =
                        IF pc[resp'.b] = "idle" THEN "admin_exists" ELSE "error500"
            ELSE /\ resp'.outcome = "admin_created"
                 /\ \E u \in users' :
                        /\ users' = users \cup {u}
                        /\ u.username = AdminUsername
                        /\ u.role = "admin"
    ]_vars

\* C9: /create_admin was asked while "admin" existed and said so.
C9_Witness ==
    /\ resp.route = "create_admin" /\ resp.outcome = "admin_exists"
    /\ Cardinality(UsersNamed(AdminUsername)) = 1

\* C10: the file an export sends is the header followed by one row per
\* client of the set the request queried for its session.
C10_ExportIsScopedSet ==
    resp.outcome = "file" => resp.file = ExportContent(InIdOrder(resp.rows))

====
